---- MODULE Spec2Model ----
(***************************************************************************)
(* The IEnvironment trait of src/main.rs (prob, prob_transition,           *)
(* expected_reward, expected_reward_at, actions_from, states_from,         *)
(* rewards) and its one implementor, Dull.                                 *)
(*                                                                         *)
(* State and Action are opaque keys: the derived queries hand `from` and   *)
(* `take` unchanged to prob and states_from.  A behaviour therefore fixes  *)
(* one (from, take) pair and records the implementor as seen from it:      *)
(* prob(from, take, . , .), whether take is in actions_from(from),         *)
(* states_from(from, take) and rewards().                                  *)
(*                                                                         *)
(* f32 values: a probability p is held as the integer p * Denom, a reward  *)
(* as an integer, a product prob * r as the integer prob * r * Denom.      *)
(* With Denom a power of two these are dyadic rationals that f32 holds     *)
(* exactly, and every sum below stays far under 2^24, so the f32 sums of   *)
(* the code are exact on them.                                             *)
(***************************************************************************)
EXTENDS Integers, Sequences, FiniteSets, TLC

VARIABLES env, call, ret

vars == <<env, call, ret>>

\* ---- bounds of the model ------------------------------------------------
\* a probability is a multiple of 1/Denom
Denom == 2
\* rewards() lists at most MaxLen entries
MaxLen == 2
\* sample values of the opaque types
States == {"Same", "Other"}
RewardVals == {0, 1, 2}
\* values an implementor's prob may return where it is not zero (a negative
\* one breaks the contract, the trait accepts it all the same)
NonZeroProbs == {-1} \cup (1..Denom)

\* ---- Option<f32> and f32 results ----------------------------------------
Some(v) == [kind |-> "Some", val |-> v]
None == [kind |-> "None", val |-> 0]
F32(v) == [kind |-> "f32", val |-> v]
NoRet == [kind |-> "none", val |-> 0]

\* ---- iterators -----------------------------------------------------------
\* Iterator::sum over a Vec: a left fold from 0.  The map before it is
\* written [i \in 1..Len(s) |-> F(s[i])] where it is used.
RECURSIVE Sum(_)
Sum(s) == IF s = <<>> THEN 0 ELSE Head(s) + Sum(Tail(s))

\* flat_map(|r| to.iter().map(move |t| (r, t))): for each r in turn, every t
\* of `to` in the set's iteration order
RECURSIVE FlatMapPairs(_, _)
FlatMapPairs(rs, ts) ==
    IF rs = <<>> THEN <<>>
    ELSE [i \in 1..Len(ts) |-> <<Head(rs), ts[i]>>] \o FlatMapPairs(Tail(rs), ts)

\* the orders in which a HashSet may hand out its members
IterOrders(S) ==
    {o \in [1..Cardinality(S) -> S] : \A i, j \in 1..Cardinality(S) : o[i] = o[j] => i = j}

\* the sum of f over the finite set D, in no particular order
RECURSIVE SumFn(_, _)
SumFn(f, D) ==
    IF D = {} THEN 0
    ELSE LET x == CHOOSE y \in D : TRUE IN f[x] + SumFn(f, D \ {x})

Range(s) == {s[i] : i \in 1..Len(s)}

\* ---- the trait -----------------------------------------------------------
\* fn rewards() -> Vec<f32> { vec![] }
DefaultRewards == <<>>

\* Self::rewards(): the implementor's override, or the default
Rewards(e) == IF e.overridesRewards THEN e.rewards ELSE DefaultRewards

\* Self::prob(from, take, to, with)
Prob(e, to, with) == e.prob[<<to, with>>]

\* Self::states_from(from, take)
StatesFrom(e) == e.statesFrom

\* take \in Self::actions_from(from)
Legal(e) == e.legal

\* prob_transition summing over the distinct reward values instead of the
\* entries of rewards()
ProbTransitionDistinct(e, to) ==
    LET rewards == Rewards(e)
    IN IF Len(rewards) > 0
       THEN Some(SumFn([r \in Range(rewards) |-> Prob(e, to, r)], Range(rewards)))
       ELSE None

\* prob_transition summing over every reward value, listed by rewards() or not
ProbTransitionAllValues(e, to) ==
    LET rewards == Rewards(e)
    IN IF Len(rewards) > 0
       THEN Some(SumFn([r \in RewardVals |-> Prob(e, to, r)], RewardVals))
       ELSE None

\* prob_transition turning an illegal action down
ProbTransitionRejectIllegal(e, to) ==
    LET rewards == Rewards(e)
        P(s) == Prob(e, to, s)
    IN IF Len(rewards) > 0 /\ Legal(e)
       THEN Some(Sum([i \in 1..Len(rewards) |-> P(rewards[i])]))
       ELSE None

ProbTransition(e, to) ==
    LET rewards == Rewards(e)
        P(s) == Prob(e, to, s)
    IN IF Len(rewards) > 0 THEN Some(Sum([i \in 1..Len(rewards) |-> P(rewards[i])])) ELSE None

\* expected_reward summing over every state of the type instead of states_from
ExpectedRewardAllStates(e, order) ==
    LET rewards == Rewards(e)
        T(rt) == Prob(e, rt[2], rt[1]) * rt[1]
        all == CHOOSE o \in IterOrders(e.stateType) : TRUE
    IN IF Len(rewards) > 0
       THEN LET pairs == FlatMapPairs(rewards, all)
            IN Some(Sum([i \in 1..Len(pairs) |-> T(pairs[i])]))
       ELSE None

\* expected_reward reporting Unsupported when there is no successor state
ExpectedRewardNoSuccessor(e, order) ==
    LET rewards == Rewards(e)
        T(rt) == Prob(e, rt[2], rt[1]) * rt[1]
    IN IF Len(rewards) > 0 /\ Len(order) > 0
       THEN LET pairs == FlatMapPairs(rewards, order)
            IN Some(Sum([i \in 1..Len(pairs) |-> T(pairs[i])]))
       ELSE None

ExpectedReward(e, order) ==
    LET rewards == Rewards(e)
        T(rt) == Prob(e, rt[2], rt[1]) * rt[1]
    IN IF Len(rewards) > 0
       THEN LET pairs == FlatMapPairs(rewards, order)
            IN Some(Sum([i \in 1..Len(pairs) |-> T(pairs[i])]))
       ELSE None

\* expected_reward_at without the weight r
ExpectedRewardAtUnweighted(e, to) ==
    LET rewards == Rewards(e)
        T(r) == Prob(e, to, r)
    IN IF Len(rewards) > 0 THEN Some(Sum([i \in 1..Len(rewards) |-> T(rewards[i])])) ELSE None

\* expected_reward_at summing over zero terms instead of reporting Unsupported
ExpectedRewardAtNoGuard(e, to) ==
    LET rewards == Rewards(e)
        T(r) == Prob(e, to, r) * r
    IN Some(Sum([i \in 1..Len(rewards) |-> T(rewards[i])]))

\* expected_reward_at skipping the first entry of rewards()
ExpectedRewardAtSkipFirst(e, to) ==
    LET rewards == Rewards(e)
        T(r) == Prob(e, to, r) * r
        rest == Tail(rewards)
    IN IF Len(rewards) > 0 THEN Some(Sum([i \in 1..Len(rest) |-> T(rest[i])])) ELSE None

ExpectedRewardAt(e, to) ==
    LET rewards == Rewards(e)
        T(r) == Prob(e, to, r) * r
    IN IF Len(rewards) > 0 THEN Some(Sum([i \in 1..Len(rewards) |-> T(rewards[i])])) ELSE None

\* ---- Dull ----------------------------------------------------------------
DullStateType == {"Same"}
DullActionsFrom == {"Nothing"}
DullStatesFrom == {"Same"}
DullRewards == <<0>>
\* Dull::prob with the test on the reward dropped
DullProbAlways(to, with) == Denom
\* Dull::prob with the two branches swapped
DullProbSwapped(to, with) == IF with = 0 THEN 0 ELSE Denom
DullProb(to, with) == IF with = 0 THEN Denom ELSE 0

Dull ==
    [impl |-> "Dull",
     stateType |-> DullStateType,
     prob |-> [tw \in DullStateType \X RewardVals |-> DullProb(tw[1], tw[2])],
     legal |-> "Nothing" \in DullActionsFrom,
     statesFrom |-> DullStatesFrom,
     overridesRewards |-> TRUE,
     rewards |-> DullRewards]

\* ---- other implementors of the trait --------------------------------------
Cells == States \X RewardVals

\* an implementor's prob(from, take, . , .) is non-zero on at most two
\* (successor, reward) pairs
Supports == {{}} \cup {{c, d} : c, d \in Cells}

ProbTables ==
    UNION {{[c \in Cells |-> IF c \in S THEN f[c] ELSE 0] : f \in [S -> NonZeroProbs]} :
           S \in Supports}

RewardVecs == UNION {[1..n -> RewardVals] : n \in 0..MaxLen}

Implementors ==
    {[impl |-> "Other", stateType |-> States, prob |-> p, legal |-> l,
      statesFrom |-> sf, overridesRewards |-> TRUE, rewards |-> rs] :
        p \in ProbTables, l \in BOOLEAN, sf \in SUBSET States, rs \in RewardVecs}
    \cup
    {[impl |-> "Other", stateType |-> States, prob |-> p, legal |-> l,
      statesFrom |-> sf, overridesRewards |-> FALSE, rewards |-> <<>>] :
        p \in ProbTables, l \in BOOLEAN, sf \in SUBSET States}

\* ---- the state machine ----------------------------------------------------
NoCall == [op |-> "none", to |-> "Same", with |-> 0]

Init ==
    /\ env \in {Dull} \cup Implementors
    /\ call = NoCall
    /\ ret = NoRet

CallProb ==
    \E to \in env.stateType, with \in RewardVals :
        /\ call' = [op |-> "prob", to |-> to, with |-> with]
        /\ ret' = F32(Prob(env, to, with))
        /\ UNCHANGED env

CallProbTransition ==
    \E to \in env.stateType :
        /\ call' = [op |-> "prob_transition", to |-> to, with |-> 0]
        /\ ret' = ProbTransition(env, to)
        /\ UNCHANGED env

CallExpectedReward ==
    \E order \in IterOrders(StatesFrom(env)) :
        /\ call' = [op |-> "expected_reward", to |-> "Same", with |-> 0]
        /\ ret' = ExpectedReward(env, order)
        /\ UNCHANGED env

CallExpectedRewardAt ==
    \E to \in env.stateType :
        /\ call' = [op |-> "expected_reward_at", to |-> to, with |-> 0]
        /\ ret' = ExpectedRewardAt(env, to)
        /\ UNCHANGED env

Next ==
    \/ CallProb
    \/ CallProbTransition
    \/ CallExpectedReward
    \/ CallExpectedRewardAt

Spec == Init /\ [][Next]_vars

\* ---- what the properties speak of -----------------------------------------
Derived == {"prob_transition", "expected_reward", "expected_reward_at"}

Supported == Len(Rewards(env)) > 0

Entries == 1..Len(Rewards(env))

\* the sum of prob(from, take, to, r) over the entries r of rewards()
MarginalOf(to) ==
    SumFn([i \in Entries |-> Prob(env, to, Rewards(env)[i])], Entries)

\* the sum of prob(from, take, to, r) * r over the entries r of rewards()
WeightedOf(to) ==
    SumFn([i \in Entries |-> Prob(env, to, Rewards(env)[i]) * Rewards(env)[i]], Entries)

\* the mass of the joint distribution: the sum of prob(from, take, s', r) over
\* the pairs (s', r) of states_from x rewards(), s' a member of states_from and
\* r a reward value that rewards() lists
Outcomes == StatesFrom(env) \X Range(Rewards(env))

NormSum == SumFn([o \in Outcomes |-> Prob(env, o[1], o[2])], Outcomes)

\* rewards() lists no reward value twice
Distinct == Cardinality(Range(Rewards(env))) = Len(Rewards(env))

NeverNegative == \A c \in DOMAIN env.prob : env.prob[c] >= 0

ZeroEverywhere == \A c \in DOMAIN env.prob : env.prob[c] = 0

\* the contract's invariants, as far as one (from, take) pair shows them
Conforming ==
    /\ NeverNegative
    /\ (Legal(env) /\ Supported) => NormSum = Denom
    /\ ~Legal(env) => ZeroEverywhere
    /\ \A c \in DOMAIN env.prob : c[1] \notin StatesFrom(env) => env.prob[c] = 0

\* ---- C1 -------------------------------------------------------------------
\* C1: when rewards() is non-empty, prob_transition(from, take, to) returns a
\* number, the sum of prob(from, take, to, r) over the entries of rewards(),
\* each entry counted once.
C1_MarginalConsistency ==
    (call.op = "prob_transition" /\ Supported) => ret = Some(MarginalOf(call.to))

\* rewards() lists one value twice and both entries are counted
C1_Witness ==
    /\ call.op = "prob_transition"
    /\ Len(Rewards(env)) = 2
    /\ Rewards(env)[1] = Rewards(env)[2]
    /\ Prob(env, call.to, Rewards(env)[1]) = 1
    /\ ret = Some(2)

\* ---- C2 -------------------------------------------------------------------
\* C2: when rewards() is non-empty, expected_reward(from, take) returns a
\* number, the sum of prob(from, take, s', r) * r over the entries r of
\* rewards() and the members s' of states_from(from, take), and over no other
\* state.
C2_ExpectedReward ==
    (call.op = "expected_reward" /\ Supported) =>
        ret = Some(SumFn([s \in StatesFrom(env) |-> WeightedOf(s)], StatesFrom(env)))

\* a state outside states_from carries weight and is left out of the sum
C2_Witness ==
    /\ call.op = "expected_reward"
    /\ Supported
    /\ env.stateType = {"Same", "Other"}
    /\ StatesFrom(env) = {"Same"}
    /\ WeightedOf("Other") > 0
    /\ WeightedOf("Same") > 0
    /\ ret = Some(WeightedOf("Same"))

\* ---- C3 -------------------------------------------------------------------
\* C3: when rewards() is empty (the default of an implementor that does not
\* override it), prob_transition, expected_reward and expected_reward_at each
\* return None, never a number.
C3_UnsupportedPropagation ==
    (call.op \in Derived /\ Rewards(env) = <<>>) => ret = None

\* the default rewards() of an implementor whose prob is not zero
C3_Witness ==
    /\ call.op = "expected_reward_at"
    /\ ~env.overridesRewards
    /\ ~ZeroEverywhere
    /\ ret = None

\* ---- C4 -------------------------------------------------------------------
\* C4: when rewards() is non-empty, expected_reward_at(from, take, to) returns
\* a number, the sum of prob(from, take, to, r) * r over the entries of
\* rewards().
C4_ExpectedRewardAt ==
    (call.op = "expected_reward_at" /\ Supported) => ret = Some(WeightedOf(call.to))

\* a reward of 2 with probability 1/Denom, weighted
C4_Witness ==
    /\ call.op = "expected_reward_at"
    /\ Rewards(env) = <<2, 1>>
    /\ Prob(env, call.to, 2) = 1
    /\ Prob(env, call.to, 1) = 1
    /\ ret = Some(3)

C6_DullScenario ==
    env.impl = "Dull" =>
        /\ call.op = "prob_transition" => ret = Some(Denom)
        /\ call.op = "expected_reward" => ret = Some(0)
        /\ call.op = "expected_reward_at" => ret = Some(0)
        /\ (call.op = "prob" /\ call.with = 1) => ret = F32(0)

C6_Witness ==
    /\ env.impl = "Dull"
    /\ call = [op |-> "prob", to |-> "Same", with |-> 1]
    /\ ret = F32(0)

C10_SupportOnly ==
    call.op \in Derived =>
        /\ ret.kind = "Some" <=> Supported
        /\ ret.kind = "None" <=> ~Supported
        /\ (call.op = "expected_reward" /\ Supported /\ StatesFrom(env) = {}) =>
              ret = Some(0)

\* an illegal action, no successor state, a prob that is not zero
C10_Witness ==
    /\ call.op = "expected_reward"
    /\ Supported
    /\ ~Legal(env)
    /\ StatesFrom(env) = {}
    /\ ~ZeroEverywhere
    /\ ret = Some(0)

====
